---- MODULE Spec2Model ----
(***************************************************************************)
(* N8N Gemini MCP server (src/server.js): the two request handlers of      *)
(* N8nGeminiMCPServer, as a state machine.                                 *)
(*                                                                         *)
(* A JavaScript string is a sequence of tokens (one-character strings for  *)
(* base64 data, longer fragments for messages), so that concatenation and  *)
(* template literals are \o and String.prototype.includes is membership    *)
(* of a token.  Every other JavaScript value is a tagged record, each type  *)
(* with a field of its own for what it holds.                              *)
(***************************************************************************)
EXTENDS Integers, Sequences, FiniteSets, TLC

\* Bounds of the model: the invocations in flight at once, the length of the free
\* part of a string given to isValidBase64, the last instant of the clock.
MaxInvocations == 2
MaxTail == 4
MaxTime == 1

VARIABLES
  request,   \* request[i]: the tools/call request invocation i serves, or NoRequest
  h,         \* h[d][i]: the handler's state for invocation i in the run with DEBUG = d
  listed,    \* listed[d]: what tools/list returned in the run with DEBUG = d, until sent
  str,       \* the argument of a direct isValidBase64 call
  verdict    \* what that call returned

vars == <<request, h, listed, str, verdict>>

----------------------------------------------------------------------------
\* JavaScript values.

Undefined == [t |-> "undefined"]
Null == [t |-> "null"]
Str(s) == [t |-> "string", v |-> s]
Num(n) == [t |-> "number", n |-> n]
Bool(b) == [t |-> "boolean", b |-> b]
Obj(f) == [t |-> "object", fields |-> f]

\* typeof x === 'string'
IsString(x) == x.t = "string"

\* ToBoolean: what `!x`, `x || y` and `x ? a : b` test.
Truthy(x) ==
  CASE x.t = "undefined" -> FALSE
    [] x.t = "null" -> FALSE
    [] x.t = "string" -> x.v # <<>>
    [] x.t = "number" -> x.n # 0
    [] x.t = "boolean" -> x.b
    [] OTHER -> TRUE

\* x || y
OrElse(x, y) == IF Truthy(x) THEN x ELSE y

\* obj.key for an object or a primitive; (null).key and (undefined).key throw.
CanReadProperty(x) == x.t \notin {"undefined", "null"}
Get(x, key) ==
  IF x.t = "object" /\ key \in DOMAIN x.fields THEN x.fields[key] ELSE Undefined

\* `${x}` in a template literal.
ToStr(x) ==
  CASE x.t = "string" -> x.v
    [] x.t = "number" -> <<ToString(x.n)>>
    [] x.t = "boolean" -> IF x.b THEN <<"true">> ELSE <<"false">>
    [] x.t = "undefined" -> <<"undefined">>
    [] x.t = "null" -> <<"null">>
    [] OTHER -> <<"[object Object]">>

\* haystack.includes(token)
Includes(haystack, token) == \E k \in 1..Len(haystack) : haystack[k] = token

StartsWith(s, p) == Len(s) >= Len(p) /\ SubSeq(s, 1, Len(p)) = p

----------------------------------------------------------------------------
\* atob / btoa and the format check.

Base64Chars ==
  << "A","B","C","D","E","F","G","H","I","J","K","L","M","N","O","P",
     "Q","R","S","T","U","V","W","X","Y","Z","a","b","c","d","e","f",
     "g","h","i","j","k","l","m","n","o","p","q","r","s","t","u","v",
     "w","x","y","z","0","1","2","3","4","5","6","7","8","9","+","/" >>

Base64Alphabet == {Base64Chars[k] : k \in 1..Len(Base64Chars)}

Base64Value(c) == (CHOOSE k \in 1..Len(Base64Chars) : Base64Chars[k] = c) - 1

AsciiWhitespace == {" ", "\t", "\n", "\f", "\r"}

LowerCase ==
  { "a","b","c","d","e","f","g","h","i","j","k","l","m",
    "n","o","p","q","r","s","t","u","v","w","x","y","z" }

\* 6-bit values to bytes: 4 values give 3 bytes; a final group of 3 or 2 values
\* gives 2 or 1 bytes, its spare low bits discarded.
RECURSIVE DecodeValues(_)
DecodeValues(v) ==
  IF Len(v) >= 4 THEN
    << (v[1] * 4) + (v[2] \div 16),
       ((v[2] % 16) * 16) + (v[3] \div 4),
       ((v[3] % 4) * 64) + v[4] >> \o DecodeValues(SubSeq(v, 5, Len(v)))
  ELSE IF Len(v) = 3 THEN
    << (v[1] * 4) + (v[2] \div 16), ((v[2] % 16) * 16) + (v[3] \div 4) >>
  ELSE IF Len(v) = 2 THEN
    << (v[1] * 4) + (v[2] \div 16) >>
  ELSE << >>

\* atob(data): the forgiving base64 decode.  [threw |-> TRUE] is the
\* InvalidCharacterError; otherwise value is the decoded byte string.
atob(data) ==
  LET nows == SelectSeq(data, LAMBDA c : c \notin AsciiWhitespace)
      n == Len(nows)
      unpadded ==
        IF n % 4 = 0 /\ n >= 2 /\ nows[n] = "=" /\ nows[n - 1] = "="
          THEN SubSeq(nows, 1, n - 2)
        ELSE IF n % 4 = 0 /\ n >= 1 /\ nows[n] = "="
          THEN SubSeq(nows, 1, n - 1)
        ELSE nows
  IN IF Len(unpadded) % 4 = 1 \/ \E k \in 1..Len(unpadded) : unpadded[k] \notin Base64Alphabet
       THEN [threw |-> TRUE, value |-> << >>]
       ELSE [threw |-> FALSE,
             value |-> DecodeValues([k \in 1..Len(unpadded) |-> Base64Value(unpadded[k])])]

\* btoa(bytes): standard base64 with padding.
RECURSIVE btoa(_)
btoa(b) ==
  IF Len(b) >= 3 THEN
    << Base64Chars[(b[1] \div 4) + 1],
       Base64Chars[((b[1] % 4) * 16) + (b[2] \div 16) + 1],
       Base64Chars[((b[2] % 16) * 4) + (b[3] \div 64) + 1],
       Base64Chars[(b[3] % 64) + 1] >> \o btoa(SubSeq(b, 4, Len(b)))
  ELSE IF Len(b) = 2 THEN
    << Base64Chars[(b[1] \div 4) + 1],
       Base64Chars[((b[1] % 4) * 16) + (b[2] \div 16) + 1],
       Base64Chars[((b[2] % 16) * 4) + 1],
       "=" >>
  ELSE IF Len(b) = 1 THEN
    << Base64Chars[(b[1] \div 4) + 1], Base64Chars[((b[1] % 4) * 16) + 1], "=", "=" >>
  ELSE << >>

DataImage == <<"d","a","t","a",":","i","m","a","g","e","/">>
Base64Marker == <<";","b","a","s","e","6","4",",">>

\* The length of the match of /^data:image\/[a-z]+;base64,/ in s, 0 when there is none.
\* [a-z]+ is greedy and ';' is no lowercase letter, so the subtype is the maximal run.
DataUrlPrefixLen(s) ==
  IF ~StartsWith(s, DataImage) THEN 0
  ELSE LET from == Len(DataImage) + 1
           run == CHOOSE n \in 0..(Len(s) - Len(DataImage)) :
                    /\ \A k \in from..(from + n - 1) : s[k] \in LowerCase
                    /\ (from + n > Len(s) \/ s[from + n] \notin LowerCase)
       IN IF run >= 1 /\ StartsWith(SubSeq(s, from + run, Len(s)), Base64Marker)
            THEN Len(DataImage) + run + Len(Base64Marker)
            ELSE 0

\* str.replace(/^data:image\/[a-z]+;base64,/, '')
RemoveDataUrlPrefix(s) == SubSeq(s, DataUrlPrefixLen(s) + 1, Len(s))

\* isValidBase64 without the re-encoding: whatever atob accepts passes.
isValidBase64DecodeOnly(x) ==
  IF ~Truthy(x) \/ ~IsString(x) THEN FALSE
  ELSE ~atob(RemoveDataUrlPrefix(x.v)).threw

isValidBase64(x) ==
  IF ~Truthy(x) \/ ~IsString(x) THEN FALSE
  ELSE LET base64String == RemoveDataUrlPrefix(x.v)
           decoded == atob(base64String)
       IN IF decoded.threw THEN FALSE
          ELSE btoa(decoded.value) = base64String

----------------------------------------------------------------------------
\* Configuration, requests and what the collaborators can answer.

\* DEBUG = process.env.DEBUG === 'true': fixed at startup; the model follows the run
\* with DEBUG = FALSE and the run with DEBUG = TRUE side by side, both given the same
\* requests and the same answers of the webhook.
DebugValues == BOOLEAN

N8N_WEBHOOK_URL == <<"https://your-n8n-instance.com/webhook/gemini-image-gen">>

Invocations == 1..MaxInvocations
Times == 0..MaxTime

ToolName == <<"generate_image_with_gemini">>
Names == {ToolName, <<"generate_images_batch">>}

CanonicalImage == <<"Y", "Q", "=", "=">>
UnpaddedImage == <<"Y", "Q">>
PngPrefix == DataImage \o <<"p", "n", "g">> \o Base64Marker

Images ==
  { Undefined, Str(<< >>), Str(CanonicalImage), Str(UnpaddedImage),
    Str(PngPrefix \o CanonicalImage), Num(7) }
Prompts == { Undefined, Str(<< >>), Str(<<"make it blue">>) }

\* params.arguments: a JSON object, whose keys are the fields that are present.
MakeArguments(image, prompt) ==
  LET keys == (IF image = Undefined THEN {} ELSE {"image_base64"})
                \cup (IF prompt = Undefined THEN {} ELSE {"prompt"})
  IN Obj([k \in keys |-> IF k = "image_base64" THEN image ELSE prompt])

\* request.params of a tools/call request: arguments is optional.
Requests ==
  [name : Names,
   arguments : {Undefined} \cup {MakeArguments(im, pr) : im \in Images, pr \in Prompts}]

NoRequest == [name |-> << >>, arguments |-> Null]

Error(code, message) == [t |-> "error", code |-> code, message |-> message]

ConnectionRefused == Error(Str(<<"ECONNREFUSED">>), <<"connect ECONNREFUSED 127.0.0.1:5678">>)
TimedOut == Error(Str(<<"ETIMEDOUT">>), <<"network timeout">>)
FetchFailed == Error(Undefined, <<"fetch failed">>)
EmptyError == Error(Undefined, << >>)
BodyError == Error(Undefined, <<"terminated">>)
SyntaxError == Error(Undefined, <<"Unexpected token < in JSON at position 0">>)

Rejected(error) == [kind |-> "rejected", value |-> error]
Fulfilled(value) == [kind |-> "fulfilled", value |-> value]

Response(ok, status, statusText) ==
  [t |-> "response", ok |-> ok, status |-> status, statusText |-> statusText]

\* What `await fetch(...)` can settle to, the expiry of its timeout apart.
FetchOutcomes ==
  { Rejected(ConnectionRefused), Rejected(FetchFailed), Rejected(EmptyError),
    Fulfilled(Response(TRUE, 200, <<"OK">>)),
    Fulfilled(Response(FALSE, 500, <<"Internal Server Error">>)),
    Fulfilled(Response(FALSE, 404, <<"Not Found">>)) }

\* What `await response.text()` can settle to.
TextOutcomes == { Fulfilled(Str(<<"workflow error">>)), Rejected(BodyError) }

JsonObject(success, image, mime, timestamp, error) ==
  LET all == [success |-> success, generated_image |-> image, mime_type |-> mime,
              timestamp |-> timestamp, error |-> error]
  IN Obj([k \in {f \in DOMAIN all : all[f] # Undefined} |-> all[k]])

JsonResults ==
  { JsonObject(Bool(TRUE), Str(<<"abc">>), Str(<<"image/png">>),
               Str(<<"2024-01-01T00:00:00Z">>), Undefined),
    JsonObject(Bool(TRUE), Undefined, Str(<<"image/jpeg">>), Undefined, Undefined),
    JsonObject(Bool(TRUE), Undefined, Undefined, Undefined, Undefined),
    JsonObject(Bool(FALSE), Undefined, Undefined, Undefined, Str(<<"quota exceeded">>)),
    JsonObject(Bool(FALSE), Undefined, Undefined, Undefined, Undefined),
    JsonObject(Undefined, Undefined, Undefined, Undefined, Undefined),
    Null }

\* What `await response.json()` can settle to.
JsonOutcomes == {Fulfilled(r) : r \in JsonResults} \cup {Rejected(SyntaxError)}

----------------------------------------------------------------------------
\* The tools/list handler.

ToolDescriptor ==
  [name |-> ToolName,
   description |-> <<"Generate or transform images using Google Imagen API through N8N workflow.">>,
   inputSchema |-> [type |-> "object",
                    properties |-> {"image_base64", "prompt"},
                    required |-> <<"image_base64", "prompt">>]]

ListToolsHandler(DEBUG) == [t |-> "tools", tools |-> <<ToolDescriptor>>]

----------------------------------------------------------------------------
\* The tools/call handler.

CrossMark == "[U+274C] "
CheckMark == "[U+2705] "

MissingParameters == <<"Error: Both image_base64 and prompt are required parameters.">>
InvalidFormat ==
  <<"Error: Invalid base64 image format. Please provide a valid base64 encoded image.">>
FailedPrefix == "Image generation failed: "
CouldNotConnect ==
  "Could not connect to N8N instance. Please check if N8N is running and the webhook URL is correct."
RequestTimedOut ==
  "Request timed out. The image generation process may take longer than expected."
UnknownError == "Unknown error occurred"
Checklist ==
  "\n\nPlease check:\n- N8N instance is running\n- Webhook URL is correct\n- Google Cloud credentials are configured\n- Vertex AI API is enabled"

\* { content: [{ type: 'text', text }], isError }
ToolResult(text, isError) ==
  [content |-> << [type |-> "text", text |-> text] >>, isError |-> isError]

NoOutcome == [kind |-> "none"]
Returned(result) == [kind |-> "result", value |-> result]
Thrown(error) == [kind |-> "fault", value |-> error]

\* The TypeError of reading a property of undefined or null.
CannotRead(of, key) ==
  Error(Undefined, <<"Cannot read properties of ", of, " (reading '", key, "')">>)

\* new Date().toISOString()
toISOString(now) == <<"1970-01-01T00:00:0", ToString(now), ".000Z">>

\* The state of one invocation: where the async handler is suspended (pc), how many
\* POSTs it has issued, the POST in flight (with the instant it was built at), the
\* response it holds, the JSON it parsed from it, the error its catch block received,
\* the value it settled with and how many times it settled.
Idle ==
  [pc |-> "idle", posts |-> 0, outbound |-> Undefined, response |-> Undefined,
   result |-> Undefined, caught |-> Undefined, outcome |-> NoOutcome, settled |-> 0]

Finish(st, outcome) ==
  [st EXCEPT !.pc = "done", !.outcome = outcome, !.settled = st.settled + 1]

\* requestPayload sending the string the format check looked at, its data-URL prefix
\* removed.
requestPayloadStripped(args, now) ==
  Obj([image_base64 |-> Str(RemoveDataUrlPrefix(Get(args, "image_base64").v)),
       prompt |-> Get(args, "prompt"),
       timestamp |-> Str(toISOString(now)),
       source |-> Str(<<"claude-desktop-mcp">>)])

\* Lines 136-151: the payload and the call of fetch.
requestPayload(args, now) ==
  Obj([image_base64 |-> Get(args, "image_base64"),
       prompt |-> Get(args, "prompt"),
       timestamp |-> Str(toISOString(now)),
       source |-> Str(<<"claude-desktop-mcp">>)])

Fetch(st, args, now) ==
  [st EXCEPT !.pc = "fetch",
             !.posts = st.posts + 1,
             !.outbound = [t |-> "request", at |-> now,
                           url |-> N8N_WEBHOOK_URL, method |-> "POST",
                           contentType |-> "application/json",
                           userAgent |-> "N8N-Gemini-MCP-Server/1.0.0",
                           body |-> [json |-> requestPayload(args, now)],
                           timeout |-> 60000]]

\* Lines 93-151: from the call to the first await.
CallToolHandler(DEBUG, req, now) ==
  LET name == req.name
      args == req.arguments
  IN IF DEBUG /\ ~CanReadProperty(args)
       THEN Finish(Idle, Thrown(CannotRead("undefined", "image_base64")))
     ELSE IF name # ToolName
       THEN Finish(Idle, Thrown(Error(Undefined, <<"Unknown tool: ">> \o name)))
     ELSE IF ~CanReadProperty(args)
       THEN Finish(Idle, Thrown(CannotRead("undefined", "image_base64")))
     ELSE IF ~Truthy(Get(args, "image_base64")) \/ ~Truthy(Get(args, "prompt"))
       THEN Finish(Idle, Returned(ToolResult(MissingParameters, Bool(TRUE))))
     ELSE IF ~isValidBase64(Get(args, "image_base64"))
       THEN Finish(Idle, Returned(ToolResult(InvalidFormat, Bool(TRUE))))
     ELSE Fetch(Idle, args, now)

\* The catch block issuing the POST once more before it gives up.
CatchErrorRetrying(st, error) ==
  IF st.posts < 2
    THEN [st EXCEPT !.pc = "fetch", !.posts = st.posts + 1]
    ELSE Finish([st EXCEPT !.caught = error],
                Returned(ToolResult(<<CrossMark, FailedPrefix, UnknownError, Checklist>>,
                                    Bool(TRUE))))

\* The catch block without its error.code branches: the raw message in every case.
CatchErrorRawMessage(st, error) ==
  LET clause == IF error.message # << >> THEN error.message ELSE <<UnknownError>>
  IN Finish([st EXCEPT !.caught = error],
            Returned(ToolResult(<<CrossMark, FailedPrefix>> \o clause \o <<Checklist>>,
                                Bool(TRUE))))

\* The catch block testing error.code for 'ETIMEOUT' instead of 'ETIMEDOUT'.
CatchErrorMisspeltTimeout(st, error) ==
  LET clause ==
        IF error.code = Str(<<"ECONNREFUSED">>) THEN <<CouldNotConnect>>
        ELSE IF error.code = Str(<<"ETIMEOUT">>) THEN <<RequestTimedOut>>
        ELSE IF error.message # << >> THEN error.message
        ELSE <<UnknownError>>
  IN Finish([st EXCEPT !.caught = error],
            Returned(ToolResult(<<CrossMark, FailedPrefix>> \o clause \o <<Checklist>>,
                                Bool(TRUE))))

\* Lines 193-221: the catch block.
CatchError(st, error) ==
  LET clause ==
        IF error.code = Str(<<"ECONNREFUSED">>) THEN <<CouldNotConnect>>
        ELSE IF error.code = Str(<<"ETIMEDOUT">>) THEN <<RequestTimedOut>>
        ELSE IF Includes(error.message, "webhook failed") THEN error.message
        ELSE IF error.message # << >> THEN error.message
        ELSE <<UnknownError>>
      errorMessage == <<FailedPrefix>> \o clause
  IN Finish([st EXCEPT !.caught = error],
            Returned(ToolResult(<<CrossMark>> \o errorMessage \o <<Checklist>>, Bool(TRUE))))

\* Lines 143-161: fetch has settled.
AfterFetch(DEBUG, st, settlement) ==
  LET over == [st EXCEPT !.outbound = Undefined]
  IN IF settlement.kind = "rejected" THEN CatchError(over, settlement.value)
     ELSE IF ~settlement.value.ok
       THEN [over EXCEPT !.pc = "text", !.response = settlement.value]
       ELSE [over EXCEPT !.pc = "json", !.response = settlement.value]

\* Lines 154-160: response.text() has settled.
AfterText(DEBUG, st, settlement) ==
  IF settlement.kind = "rejected" THEN CatchError(st, settlement.value)
  ELSE CatchError(st, Error(Undefined,
                            <<"N8N ", "webhook failed", ": ", ToString(st.response.status), " ">>
                              \o st.response.statusText))

\* The translation testing `result.success !== false` and defaulting the format to
\* 'image/jpeg'.
AfterJsonUnlessFalse(DEBUG, st, settlement) ==
  IF settlement.kind = "rejected" THEN CatchError(st, settlement.value)
  ELSE LET result == settlement.value
           got == [st EXCEPT !.result = result]
       IN IF ~CanReadProperty(result)
            THEN CatchError(got, CannotRead(ToStr(result)[1], "success"))
          ELSE IF Get(result, "success") # Bool(FALSE)
            THEN Finish(got, Returned(ToolResult(
                   <<CheckMark, "Image generation completed successfully!\n\n**Generated Image**: ">>
                     \o (IF Truthy(Get(result, "generated_image"))
                           THEN <<"Ready">> ELSE <<"Not available">>)
                     \o <<"\n**Format**: ">>
                     \o ToStr(OrElse(Get(result, "mime_type"), Str(<<"image/jpeg">>)))
                     \o <<"\n**Processed at**: ">>
                     \o ToStr(Get(result, "timestamp"))
                     \o <<"\n\nThe generated image is available as base64 data.">>,
                   Undefined)))
          ELSE Finish(got, Returned(ToolResult(
                   <<CrossMark, FailedPrefix>>
                     \o ToStr(OrElse(Get(result, "error"), Str(<<UnknownError>>))),
                   Bool(TRUE))))

\* Lines 163-192: response.json() has settled.
AfterJson(DEBUG, st, settlement) ==
  IF settlement.kind = "rejected" THEN CatchError(st, settlement.value)
  ELSE LET result == settlement.value
           got == [st EXCEPT !.result = result]
       IN IF ~CanReadProperty(result)
            THEN CatchError(got, CannotRead(ToStr(result)[1], "success"))
          ELSE IF Truthy(Get(result, "success"))
            THEN Finish(got, Returned(ToolResult(
                   <<CheckMark, "Image generation completed successfully!\n\n**Generated Image**: ">>
                     \o (IF Truthy(Get(result, "generated_image"))
                           THEN <<"Ready">> ELSE <<"Not available">>)
                     \o <<"\n**Format**: ">>
                     \o ToStr(OrElse(Get(result, "mime_type"), Str(<<"image/png">>)))
                     \o <<"\n**Processed at**: ">>
                     \o ToStr(Get(result, "timestamp"))
                     \o <<"\n\nThe generated image is available as base64 data.">>,
                   Undefined)))
          ELSE Finish(got, Returned(ToolResult(
                   <<CrossMark, FailedPrefix>>
                     \o ToStr(OrElse(Get(result, "error"), Str(<<UnknownError>>))),
                   Bool(TRUE))))

Continue(DEBUG, st, settlement) ==
  CASE st.pc = "fetch" -> AfterFetch(DEBUG, st, settlement)
    [] st.pc = "text" -> AfterText(DEBUG, st, settlement)
    [] st.pc = "json" -> AfterJson(DEBUG, st, settlement)

----------------------------------------------------------------------------
\* The state machine.

Init ==
  /\ request = [i \in Invocations |-> NoRequest]
  /\ h = [d \in DebugValues |-> [i \in Invocations |-> Idle]]
  /\ listed = [d \in DebugValues |-> Undefined]
  /\ str = << >>
  /\ verdict = "unchecked"

\* An invocation has ended, in both runs, and its response is yet to be sent.  The
\* response is sent in the microtasks that follow the handler's end, before the event
\* loop takes its next event: a request, a settled promise or an expired timer.
Unanswered(i) == \A d \in DebugValues : h[d][i].pc = "done"
ListUnanswered == \A d \in DebugValues : listed[d] # Undefined
EventLoopFree == ~ListUnanswered /\ \A i \in Invocations : ~Unanswered(i)

\* A tools/list request is served.
ListTools ==
  /\ EventLoopFree
  /\ listed' = [d \in DebugValues |-> ListToolsHandler(d)]
  /\ UNCHANGED <<request, h, str, verdict>>

\* A tools/call request arrives and its handler runs to its first await or its end.
CallTool(i) ==
  /\ EventLoopFree
  /\ request[i] = NoRequest
  /\ \E req \in Requests, now \in Times :
       /\ request' = [request EXCEPT ![i] = req]
       /\ h' = [d \in DebugValues |-> [h[d] EXCEPT ![i] = CallToolHandler(d, req, now)]]
  /\ UNCHANGED <<listed, str, verdict>>

\* The ToolResult or the fault of invocation i goes back to the caller, and the
\* invocation is over.
Respond(i) ==
  /\ Unanswered(i)
  /\ request' = [request EXCEPT ![i] = NoRequest]
  /\ h' = [d \in DebugValues |-> [h[d] EXCEPT ![i] = Idle]]
  /\ UNCHANGED <<listed, str, verdict>>

\* The list of tools goes back to the caller.
RespondTools ==
  /\ ListUnanswered
  /\ listed' = [d \in DebugValues |-> Undefined]
  /\ UNCHANGED <<request, h, str, verdict>>

\* The promise invocation i awaits at pc settles, and the handler runs on.
Resume(i, pc, settlement) ==
  [d \in DebugValues |->
     IF h[d][i].pc = pc
       THEN [h[d] EXCEPT ![i] = Continue(d, h[d][i], settlement)]
       ELSE h[d]]

Awaiting(i, pc) == EventLoopFree /\ \E d \in DebugValues : h[d][i].pc = pc

FetchSettles(i) ==
  /\ Awaiting(i, "fetch")
  /\ \E s \in FetchOutcomes : h' = Resume(i, "fetch", s)
  /\ UNCHANGED <<request, listed, str, verdict>>

TextSettles(i) ==
  /\ Awaiting(i, "text")
  /\ \E s \in TextOutcomes : h' = Resume(i, "text", s)
  /\ UNCHANGED <<request, listed, str, verdict>>

JsonSettles(i) ==
  /\ Awaiting(i, "json")
  /\ \E s \in JsonOutcomes : h' = Resume(i, "json", s)
  /\ UNCHANGED <<request, listed, str, verdict>>

\* The 60 second budget of the outbound call (line 150) runs out before the webhook
\* has answered in full.
TimeoutExpires(i) ==
  /\ \E pc \in {"fetch", "text", "json"} :
       /\ Awaiting(i, pc)
       /\ h' = Resume(i, pc, Rejected(TimedOut))
  /\ UNCHANGED <<request, listed, str, verdict>>

Next ==
  \/ ListTools
  \/ \E i \in Invocations : CallTool(i)
  \/ \E i \in Invocations : FetchSettles(i)
  \/ \E i \in Invocations : TextSettles(i)
  \/ \E i \in Invocations : JsonSettles(i)
  \/ \E i \in Invocations : TimeoutExpires(i)
  \/ \E i \in Invocations : Respond(i)
  \/ RespondTools

Spec == Init /\ [][Next]_vars

\* The webhook may never answer; the timeout of the outbound call does expire, and a
\* response that is due is sent.  The expired timer waits its turn while the event
\* loop serves other events, and is served however often they come: strong fairness.
LiveSpec ==
  /\ Spec
  /\ WF_vars(RespondTools)
  /\ \A i \in Invocations : SF_vars(TimeoutExpires(i)) /\ WF_vars(Respond(i))

----------------------------------------------------------------------------
\* isValidBase64 called on its own.

TailAlphabet == {"Y", "Q", "R", "=", " ", "!"}
Tails == UNION {[1..n -> TailAlphabet] : n \in 0..MaxTail}
Heads == { << >>, <<"Y", "Q", "Y", "Q">> }
Prefixes ==
  { << >>,
    PngPrefix,
    DataImage \o <<"j", "p", "e", "g">> \o Base64Marker,
    DataImage \o <<"P", "N", "G">> \o Base64Marker,
    DataImage \o Base64Marker,
    <<" ">> \o PngPrefix }

FormatInputs ==
  {p \o hd \o tl : p \in Prefixes, hd \in Heads, tl \in Tails}
    \cup {<<"n","o","t","-","b","a","s","e","6","4","!","!">>}

InitFormat ==
  /\ request = [i \in Invocations |-> NoRequest]
  /\ h = [d \in DebugValues |-> [i \in Invocations |-> Idle]]
  /\ listed = [d \in DebugValues |-> Undefined]
  /\ str \in FormatInputs
  /\ verdict = "unchecked"

CheckFormat ==
  /\ verdict = "unchecked"
  /\ verdict' = IF isValidBase64(Str(str)) THEN "valid" ELSE "invalid"
  /\ UNCHANGED <<request, h, listed, str>>

FormatSpec == InitFormat /\ [][CheckFormat]_vars

----------------------------------------------------------------------------
\* What the claims speak of.

Done(d, i) == h[d][i].pc = "done"
Called(d, i) == h[d][i].pc # "idle"
Outcome(d, i) == h[d][i].outcome
IsToolResult(o) == o.kind = "result"
TextOf(o) == o.value.content[1].text
IsError(o) == Truthy(o.value.isError)
ErrorResult(text) == Returned(ToolResult(text, Bool(TRUE)))

\* The field of the request's arguments, absent when there are no arguments at all.
Field(req, key) ==
  IF req.arguments = Undefined THEN Undefined ELSE Get(req.arguments, key)

Recognized(req) == req.name = ToolName

\* Standard (RFC 4648) base64 in canonical form: whole quads of alphabet characters,
\* at most two '=' closing the last quad, the bits they leave unused zero.
IsCanonicalBase64(s) ==
  LET n == Len(s)
      pad == IF n >= 2 /\ s[n] = "=" /\ s[n - 1] = "=" THEN 2
             ELSE IF n >= 1 /\ s[n] = "=" THEN 1 ELSE 0
  IN /\ n % 4 = 0
     /\ \A k \in 1..(n - pad) : s[k] \in Base64Alphabet
     /\ pad = 1 => Base64Value(s[n - 1]) % 4 = 0
     /\ pad = 2 => Base64Value(s[n - 2]) % 16 = 0

\* p is a data-URL prefix data:image/<subtype>;base64, with a subtype of one or more
\* lowercase letters.
IsDataUrlPrefix(p) ==
  /\ Len(p) > Len(DataImage) + Len(Base64Marker)
  /\ SubSeq(p, 1, Len(DataImage)) = DataImage
  /\ SubSeq(p, Len(p) - Len(Base64Marker) + 1, Len(p)) = Base64Marker
  /\ \A k \in (Len(DataImage) + 1)..(Len(p) - Len(Base64Marker)) : p[k] \in LowerCase

\* What follows the data-URL prefix of s, or s itself when it starts with none.
AfterDataUrlPrefix(s) ==
  IF \E k \in 1..Len(s) : IsDataUrlPrefix(SubSeq(s, 1, k))
    THEN LET k == CHOOSE j \in 1..Len(s) : IsDataUrlPrefix(SubSeq(s, 1, j))
         IN SubSeq(s, k + 1, Len(s))
    ELSE s

\* The request passes the name check and both validation checks.
PassesValidation(req) ==
  /\ Recognized(req)
  /\ Truthy(Field(req, "image_base64"))
  /\ Truthy(Field(req, "prompt"))
  /\ IsString(Field(req, "image_base64"))
  /\ IsCanonicalBase64(AfterDataUrlPrefix(Field(req, "image_base64").v))

----------------------------------------------------------------------------
\* C1: every invocation of generate_image_with_gemini that has ended ended with one
\* ToolResult and not with a fault, whatever its arguments and whatever the webhook did.
C1_RecognizedNameNeverFaults ==
  \A d \in DebugValues, i \in Invocations :
    (Done(d, i) /\ Recognized(request[i]))
      => (IsToolResult(Outcome(d, i)) /\ h[d][i].settled = 1)

\* C2: an invocation of the tool whose image_base64 or prompt is absent or empty ends
\* with the error ToolResult "Error: Both image_base64 and prompt are required
\* parameters.", one whose image_base64 fails the format check with "Error: Invalid
\* base64 image format. ...", and neither has issued a POST.
C2_ValidationErrors ==
  \A d \in DebugValues, i \in Invocations :
    (Called(d, i) /\ Recognized(request[i])) =>
      LET image == Field(request[i], "image_base64")
          prompt == Field(request[i], "prompt")
      IN /\ (~Truthy(image) \/ ~Truthy(prompt)) =>
              (Outcome(d, i) = ErrorResult(MissingParameters) /\ h[d][i].posts = 0)
         /\ (Truthy(image) /\ Truthy(prompt)
               /\ ~(IsString(image) /\ IsCanonicalBase64(AfterDataUrlPrefix(image.v)))) =>
              (Outcome(d, i) = ErrorResult(InvalidFormat) /\ h[d][i].posts = 0)

\* C3: an invocation of any other name ends with the fault "Unknown tool: <name>",
\* with no ToolResult and no POST, whatever its arguments.
C3_UnknownToolFault ==
  \A d \in DebugValues, i \in Invocations :
    (Called(d, i) /\ ~Recognized(request[i])) =>
      /\ Outcome(d, i) = Thrown(Error(Undefined, <<"Unknown tool: ">> \o request[i].name))
      /\ h[d][i].posts = 0

\* C7: the run with DEBUG on and the run with DEBUG off, given the same requests and
\* the same answers, return the same tools/list results and the same outcome for
\* every invocation.
C7_DebugDoesNotAffectResults ==
  /\ listed[TRUE] = listed[FALSE]
  /\ \A i \in Invocations : Outcome(TRUE, i) = Outcome(FALSE, i)

\* C4: with invocations interleaved, each one issues at most one POST, exactly one
\* when its name is recognized and its arguments pass both checks, and a failed call
\* is not reattempted: the invocation ends with one error ToolResult.
C4_AtMostOnePost ==
  \A d \in DebugValues, i \in Invocations :
    /\ h[d][i].posts <= 1
    /\ h[d][i].settled <= 1
    /\ Called(d, i) => (h[d][i].posts = 1 <=> PassesValidation(request[i]))
    /\ h[d][i].caught # Undefined =>
         /\ Done(d, i)
         /\ h[d][i].posts = 1
         /\ h[d][i].settled = 1
         /\ IsToolResult(Outcome(d, i))
         /\ IsError(Outcome(d, i))

\* C4's case: one invocation has ended on a failed call while another one's POST is
\* still in flight.
C4_Witness ==
  \E d \in DebugValues, i, j \in Invocations :
    /\ i # j
    /\ Done(d, i) /\ h[d][i].caught = ConnectionRefused /\ h[d][i].posts = 1
    /\ h[d][j].pc = "fetch" /\ h[d][j].posts = 1

\* What the handler is to say for a parsed body, as the claims have it.
SuccessText(result) ==
  <<CheckMark, "Image generation completed successfully!\n\n**Generated Image**: ">>
    \o <<IF Get(result, "generated_image") = Undefined THEN "Not available" ELSE "Ready">>
    \o <<"\n**Format**: ">>
    \o (IF Get(result, "mime_type") = Undefined
          THEN <<"image/png">> ELSE Get(result, "mime_type").v)
    \o <<"\n**Processed at**: ">>
    \o (IF Get(result, "timestamp") = Undefined
          THEN <<"undefined">> ELSE Get(result, "timestamp").v)
    \o <<"\n\nThe generated image is available as base64 data.">>

ReportedError(result) ==
  IF Get(result, "error") = Undefined THEN <<UnknownError>> ELSE Get(result, "error").v

\* The text says that the generation failed.
IndicatesFailure(text) == Includes(text, FailedPrefix)

\* The invocation has parsed a JSON body out of a response with a success status.
Parsed(d, i) == Done(d, i) /\ h[d][i].result # Undefined

\* C5 as stated: for every well-formed JSON body of a success response, success true
\* gives a non-error ToolResult reporting image presence, MIME type and timestamp,
\* success false or absent gives an error ToolResult whose text is
\* "Image generation failed: " followed by result.error or "Unknown error occurred".
C5_AsStated ==
  \A d \in DebugValues, i \in Invocations :
    Parsed(d, i) =>
      LET result == h[d][i].result
          o == Outcome(d, i)
      IN /\ IsToolResult(o)
         /\ IsError(o) <=> IndicatesFailure(TextOf(o))
         /\ Get(result, "success") = Bool(TRUE) =>
              (~IsError(o) /\ TextOf(o) = SuccessText(result))
         /\ Get(result, "success") \in {Bool(FALSE), Undefined} =>
              (IsError(o) /\ TextOf(o) = <<FailedPrefix>> \o ReportedError(result))

\* C5 as amended: the same for every JSON body other than null, the failure text led
\* by the cross mark; a null body ends in the catch block, with the TypeError's
\* message and the checklist.  In every case the error flag is set exactly when the
\* text says the generation failed.
C5_ResultTranslation ==
  \A d \in DebugValues, i \in Invocations :
    Parsed(d, i) =>
      LET result == h[d][i].result
          o == Outcome(d, i)
      IN /\ IsToolResult(o)
         /\ h[d][i].settled = 1
         /\ IsError(o) <=> IndicatesFailure(TextOf(o))
         /\ (result # Null /\ Get(result, "success") = Bool(TRUE)) =>
              (~IsError(o) /\ TextOf(o) = SuccessText(result))
         /\ (result # Null /\ Get(result, "success") \in {Bool(FALSE), Undefined}) =>
              (IsError(o) /\ TextOf(o) = <<CrossMark, FailedPrefix>> \o ReportedError(result))
         /\ result = Null =>
              (IsError(o)
                 /\ TextOf(o) = <<CrossMark, FailedPrefix, "Cannot read properties of ",
                                  "null", " (reading '", "success", "')", Checklist>>)

\* C5's case: an invocation has translated the failure body that reports "quota
\* exceeded".
C5_Witness ==
  \E d \in DebugValues, i \in Invocations :
    /\ Parsed(d, i)
    /\ h[d][i].response.ok
    /\ Get(h[d][i].result, "success") = Bool(FALSE)
    /\ IsError(Outcome(d, i))
    /\ Includes(TextOf(Outcome(d, i)), "quota exceeded")

\* The clause the claims give for the error the catch block received.
CauseClause(error) ==
  IF error = ConnectionRefused THEN <<CouldNotConnect>>
  ELSE IF error = TimedOut THEN <<RequestTimedOut>>
  ELSE IF error.message = << >> THEN <<UnknownError>>
  ELSE error.message

\* The error a non-success status raises.
WebhookFailed(response) ==
  Error(Undefined,
        <<"N8N ", "webhook failed", ": ", ToString(response.status), " ">>
          \o response.statusText)

\* The invocation ended in the catch block.
Caught(d, i) == Done(d, i) /\ h[d][i].caught # Undefined

\* C6 as stated: each failure of the try block gives an error ToolResult whose text
\* starts with "Image generation failed: ", goes on with the clause of its cause and
\* ends with the checklist.
C6_AsStated ==
  \A d \in DebugValues, i \in Invocations :
    Caught(d, i) =>
      /\ IsToolResult(Outcome(d, i))
      /\ IsError(Outcome(d, i))
      /\ TextOf(Outcome(d, i))
           = <<FailedPrefix>> \o CauseClause(h[d][i].caught) \o <<Checklist>>

\* C6 as amended: the text is the cross mark, then "Image generation failed: ", then
\* the one clause of the cause, then the checklist; a non-success status whose body
\* could be read is caught as "N8N webhook failed: <status> <statusText>".
C6_ExceptionTranslation ==
  \A d \in DebugValues, i \in Invocations :
    /\ Caught(d, i) =>
         /\ IsToolResult(Outcome(d, i))
         /\ IsError(Outcome(d, i))
         /\ h[d][i].settled = 1
         /\ TextOf(Outcome(d, i))
              = <<CrossMark, FailedPrefix>> \o CauseClause(h[d][i].caught) \o <<Checklist>>
    /\ (Done(d, i) /\ h[d][i].response # Undefined /\ ~h[d][i].response.ok) =>
         h[d][i].caught \in {WebhookFailed(h[d][i].response), BodyError, TimedOut}

\* C6's case: an invocation was refused its connection.
C6_Witness ==
  \E d \in DebugValues, i \in Invocations :
    /\ Caught(d, i)
    /\ h[d][i].caught = ConnectionRefused
    /\ Includes(TextOf(Outcome(d, i)), CouldNotConnect)
    /\ Includes(TextOf(Outcome(d, i)), Checklist)

C9_PayloadAsSupplied ==
  \A d \in DebugValues, i \in Invocations :
    LET image == Field(request[i], "image_base64")
        prompt == Field(request[i], "prompt")
    IN /\ ( /\ Called(d, i) /\ Recognized(request[i]) /\ Truthy(prompt)
            /\ IsString(image) /\ AfterDataUrlPrefix(image.v) # image.v
            /\ IsCanonicalBase64(AfterDataUrlPrefix(image.v)) )
           => h[d][i].posts = 1
       /\ h[d][i].pc = "fetch" =>
            LET sent == h[d][i].outbound.body.json
            IN /\ DOMAIN sent.fields = {"image_base64", "prompt", "timestamp", "source"}
               /\ sent.fields["image_base64"] = image
               /\ sent.fields["prompt"] = prompt
               /\ sent.fields["timestamp"] = Str(toISOString(h[d][i].outbound.at))
               /\ sent.fields["source"] = Str(<<"claude-desktop-mcp">>)

\* C9's case: a POST is in flight for an image that came with the data-URL prefix.
C9_Witness ==
  \E d \in DebugValues, i \in Invocations :
    /\ h[d][i].pc = "fetch"
    /\ StartsWith(Field(request[i], "image_base64").v, PngPrefix)
    /\ StartsWith(h[d][i].outbound.body.json.fields["image_base64"].v, PngPrefix)

\* C10 as stated, of the string as it is given: canonical base64 passes, and a string
\* that atob cannot decode, or decodes to bytes that btoa encodes differently, fails.
C10_AsStated ==
  verdict # "unchecked" =>
    /\ IsCanonicalBase64(str) => verdict = "valid"
    /\ (atob(str).threw \/ btoa(atob(str).value) # str) => verdict = "invalid"

\* C10 as amended: the empty string fails; any other string passes exactly when what
\* follows its data:image/<subtype>;base64, prefix, if it has one, is canonical
\* base64.
C10_RoundTrip ==
  verdict # "unchecked" =>
    (verdict = "valid" <=> (str # << >> /\ IsCanonicalBase64(AfterDataUrlPrefix(str))))

\* C10's case: a string without its padding, which decodes and re-encodes differently,
\* was rejected.
C10_Witness ==
  /\ verdict = "invalid"
  /\ str = <<"Y", "Q">>
  /\ ~atob(str).threw
  /\ btoa(atob(str).value) = <<"Y", "Q", "=", "=">>

====
